---- MODULE Spec2Model ----
(***************************************************************************)
(* Model of jules-scratch/verification/verify_callcaps.py: a script that   *)
(* starts the Playwright engine, launches a headless Chromium, opens one   *)
(* page, navigates it to the dashboard route, writes a screenshot, closes  *)
(* the browser and leaves the engine's `with` scope.                       *)
(*                                                                         *)
(* Every call of the script is one action.  A call either returns or       *)
(* raises; which of the two is decided by the environment of the run       *)
(* (server, output directory, engine/browser faults), drawn when the run   *)
(* starts.  Nothing in the script catches an exception, so a raise inside  *)
(* the `with` block goes to the block's __exit__ and then out of main().   *)
(* Several runs of the script follow one another on the same machine: the  *)
(* screenshot file and any browser process left behind persist.            *)
(***************************************************************************)
EXTENDS Integers, Sequences, FiniteSets

\* Number of successive runs of the script that are explored.
MaxRuns == 2

VARIABLES
    run,          \* index of the current run of the script, 1..MaxRuns
    pc,           \* control location of the current run
    env,          \* environment of the current run (what each call will meet)
    engine,       \* Playwright engine of this run: "none", "running", "stopped"
    browsers,     \* runs whose browser process is alive
    pages,        \* pages opened by this run
    file,         \* debug_screenshot.png: -1 absent, 0 older content, r written by run r
    fileAtStart,  \* value of file when the current run started
    err,          \* exception propagating / that ended the run, "none" if none
    exit,         \* process exit status of this run, -1 while it is running
    exits,        \* finished runs: <<[reachable, status]>>
    calls,        \* calls made by this run, per call site
    trace         \* control locations visited by this run, in order

vars == <<run, pc, env, engine, browsers, pages, file, fileAtStart, err, exit,
          exits, calls, trace>>

\* What the server at localhost:3000 answers to the navigation.
Servers == {"ok200", "err404", "down"}

\* The environment a run meets: each field decides whether one call raises.
Envs == [server : Servers, dirWritable : BOOLEAN, engineOk : BOOLEAN,
         launchOk : BOOLEAN, pageOk : BOOLEAN, closeOk : BOOLEAN]

NoCalls == [acquire |-> 0, launch |-> 0, new_page |-> 0, goto |-> 0,
            screenshot |-> 0, close |-> 0, stop |-> 0]

\* A run is over: main() returned, or an exception left main() uncaught.
Terminal == {"End", "Failed"}

Init ==
    /\ run = 1
    /\ pc = "Start"
    /\ env \in Envs
    /\ engine = "none"
    /\ browsers = {}
    /\ pages = 0
    /\ file \in {-1, 0}
    /\ fileAtStart = file
    /\ err = "none"
    /\ exit = -1
    /\ exits = <<>>
    /\ calls = NoCalls
    /\ trace = <<"Start">>

\* Control moves to location p.
Goes(p) == pc' = p /\ trace' = Append(trace, p)

\* The call at site c is made.
Called(c) == calls' = [calls EXCEPT ![c] = @ + 1]

\* A call inside the `with` block raises e: nothing catches it, so control
\* leaves the block through its __exit__.
Raise(e) == err' = e /\ Goes("Raised")

\* Exit status of the interpreter: 0 when main() returns, 1 when an
\* exception leaves main() uncaught.
ExitStatusZero(e) == 0

ExitStatus(e) == IF e = "none" THEN 0 ELSE 1

\* with sync_playwright() as p: -- __enter__ starts the engine.  When it
\* raises, the block is never entered and its __exit__ does not run.
Enter ==
    /\ pc = "Start"
    /\ Called("acquire")
    /\ IF env.engineOk
         THEN /\ engine' = "running"
              /\ Goes("EngineAcquired")
              /\ UNCHANGED <<err, exit>>
         ELSE /\ err' = "LaunchError"
              /\ Goes("Failed")
              /\ exit' = ExitStatus("LaunchError")
              /\ UNCHANGED engine
    /\ UNCHANGED <<run, env, browsers, pages, file, fileAtStart, exits>>

\* browser = p.chromium.launch(headless=True)
Launch ==
    /\ pc = "EngineAcquired"
    /\ Called("launch")
    /\ IF env.launchOk
         THEN /\ browsers' = browsers \cup {run}
              /\ Goes("BrowserLaunched")
              /\ UNCHANGED err
         ELSE /\ Raise("LaunchError")
              /\ UNCHANGED browsers
    /\ UNCHANGED <<run, env, engine, pages, file, fileAtStart, exit, exits>>

\* Faulty variant: the browser is closed right after the page is opened, before the
\* page is handed to the verification routine.
NewPageThenClose ==
    /\ pc = "BrowserLaunched"
    /\ Called("new_page")
    /\ IF env.pageOk
         THEN /\ pages' = pages + 1
              /\ browsers' = browsers \ {run}
              /\ Goes("PageOpened")
              /\ UNCHANGED err
         ELSE /\ Raise("PageError")
              /\ UNCHANGED <<pages, browsers>>
    /\ UNCHANGED <<run, env, engine, file, fileAtStart, exit, exits>>

\* page = browser.new_page()
NewPage ==
    /\ pc = "BrowserLaunched"
    /\ Called("new_page")
    /\ IF env.pageOk
         THEN /\ pages' = pages + 1
              /\ Goes("PageOpened")
              /\ UNCHANGED err
         ELSE /\ Raise("PageError")
              /\ UNCHANGED pages
    /\ UNCHANGED <<run, env, engine, browsers, file, fileAtStart, exit, exits>>

\* Faulty variant: a failed navigation is swallowed and the routine goes on.
GotoSwallow ==
    /\ pc = "PageOpened"
    /\ Called("goto")
    /\ Goes("Navigated")
    /\ UNCHANGED <<run, env, engine, browsers, pages, file, fileAtStart, err,
                   exit, exits>>

\* Faulty variant: the routine asserts on the response and raises on a 404.
GotoAssertOk ==
    /\ pc = "PageOpened"
    /\ Called("goto")
    /\ IF env.server = "ok200"
         THEN Goes("Navigated") /\ UNCHANGED err
         ELSE Raise("NavigationTimeout")
    /\ UNCHANGED <<run, env, engine, browsers, pages, file, fileAtStart, exit,
                   exits>>

\* Faulty variant: a failed navigation is retried once.
GotoRetry ==
    /\ pc = "PageOpened"
    /\ Called("goto")
    /\ IF env.server # "down"
         THEN Goes("Navigated") /\ UNCHANGED err
         ELSE IF calls.goto = 0
                THEN Goes("PageOpened") /\ UNCHANGED err
                ELSE Raise("NavigationTimeout")
    /\ UNCHANGED <<run, env, engine, browsers, pages, file, fileAtStart, exit,
                   exits>>

\* Faulty variant: the navigation is made with the timeout disabled and waits for a
\* server that never answers.
GotoHang ==
    /\ pc = "PageOpened"
    /\ IF env.server # "down"
         THEN /\ Called("goto")
              /\ Goes("Navigated")
              /\ UNCHANGED <<run, env, engine, browsers, pages, file,
                             fileAtStart, err, exit, exits>>
         ELSE UNCHANGED vars

\* page.goto("http://localhost:3000/dashboard/callcaps"): returns once the
\* load-completion condition is met, whatever the response status; raises
\* when the default timeout passes first.  No assertion follows.
Goto ==
    /\ pc = "PageOpened"
    /\ Called("goto")
    /\ IF env.server # "down"
         THEN Goes("Navigated") /\ UNCHANGED err
         ELSE Raise("NavigationTimeout")
    /\ UNCHANGED <<run, env, engine, browsers, pages, file, fileAtStart, exit,
                   exits>>

\* Faulty variant: the file is opened for exclusive creation, so an existing
\* screenshot makes the capture fail.
ScreenshotExclusive ==
    /\ pc = "Navigated"
    /\ Called("screenshot")
    /\ IF env.dirWritable /\ file = -1
         THEN /\ file' = run
              /\ Goes("CaptureComplete")
              /\ UNCHANGED err
         ELSE /\ Raise("CaptureError")
              /\ UNCHANGED file
    /\ UNCHANGED <<run, env, engine, browsers, pages, fileAtStart, exit, exits>>

\* page.screenshot(path="jules-scratch/verification/debug_screenshot.png"):
\* creates or overwrites the one file at the fixed path.
Screenshot ==
    /\ pc = "Navigated"
    /\ Called("screenshot")
    /\ IF env.dirWritable
         THEN /\ file' = run
              /\ Goes("CaptureComplete")
              /\ UNCHANGED err
         ELSE /\ Raise("CaptureError")
              /\ UNCHANGED file
    /\ UNCHANGED <<run, env, engine, browsers, pages, fileAtStart, exit, exits>>

\* def verify_callcaps_dashboard(page): one navigation, then one capture.
verify_callcaps_dashboard == Goto \/ Screenshot

\* browser.close(): reached only when verify_callcaps_dashboard returned.
BrowserClose ==
    /\ pc = "CaptureComplete"
    /\ Called("close")
    /\ IF env.closeOk
         THEN /\ browsers' = browsers \ {run}
              /\ Goes("BrowserClosed")
              /\ UNCHANGED err
         ELSE /\ Raise("CloseError")
              /\ UNCHANGED browsers
    /\ UNCHANGED <<run, env, engine, pages, file, fileAtStart, exit, exits>>

\* Faulty variant: the engine is stopped but the browser it launched is left alone.
ExitScopeLeak ==
    /\ pc \in {"BrowserClosed", "Raised"}
    /\ Called("stop")
    /\ engine' = "stopped"
    /\ Goes(IF err = "none" THEN "End" ELSE "Failed")
    /\ exit' = ExitStatus(err)
    /\ UNCHANGED <<run, env, browsers, pages, file, fileAtStart, err, exits>>

\* Faulty variant: the engine is started and stopped by plain calls instead of a
\* `with` block, so an exception skips the stop.
ExitScopeNoRelease ==
    /\ pc \in {"BrowserClosed", "Raised"}
    /\ IF err = "none"
         THEN /\ Called("stop")
              /\ engine' = "stopped"
              /\ browsers' = browsers \ {run}
         ELSE UNCHANGED <<calls, engine, browsers>>
    /\ Goes(IF err = "none" THEN "End" ELSE "Failed")
    /\ exit' = ExitStatus(err)
    /\ UNCHANGED <<run, env, pages, file, fileAtStart, err, exits>>

\* End of the `with sync_playwright()` block: __exit__ runs however the
\* block is left and stops the engine; stopping the engine ends the driver
\* process and with it the browser the driver launched.  The exception, if
\* any, then leaves main() and the interpreter.
ExitScope ==
    /\ pc \in {"BrowserClosed", "Raised"}
    /\ Called("stop")
    /\ engine' = "stopped"
    /\ browsers' = browsers \ {run}
    /\ Goes(IF err = "none" THEN "End" ELSE "Failed")
    /\ exit' = ExitStatus(err)
    /\ UNCHANGED <<run, env, pages, file, fileAtStart, err, exits>>

\* def main() and the call of it under __name__ == "__main__".
main == Enter \/ Launch \/ NewPage \/ verify_callcaps_dashboard
          \/ BrowserClose \/ ExitScope

\* The script is run again, in an environment of its own.
NextRun ==
    /\ pc \in Terminal
    /\ run < MaxRuns
    /\ run' = run + 1
    /\ pc' = "Start"
    /\ trace' = <<"Start">>
    /\ env' \in Envs
    /\ engine' = "none"
    /\ pages' = 0
    /\ fileAtStart' = file
    /\ err' = "none"
    /\ exit' = -1
    /\ exits' = Append(exits, [reachable |-> env.server # "down", status |-> exit])
    /\ calls' = NoCalls
    /\ UNCHANGED <<browsers, file>>

Next == main \/ NextRun

Spec == Init /\ [][Next]_vars

\* Each call of the script returns or raises: a run that can take a step
\* eventually takes one.
FairSpec == Spec /\ WF_vars(main)

(***************************************************************************)
(* Properties                                                              *)
(***************************************************************************)

\* The lifecycle of a run that meets no failure.
Lifecycle == <<"Start", "EngineAcquired", "BrowserLaunched", "PageOpened",
               "Navigated", "CaptureComplete", "BrowserClosed", "End">>

LifecycleStates == {Lifecycle[i] : i \in 1..Len(Lifecycle)}

\* The server answered the navigation of the current run.
Reachable == env.server # "down"

\* No call of the current run meets a fault other than the server's answer.
FaultFree == env.dirWritable /\ env.engineOk /\ env.launchOk /\ env.pageOk
               /\ env.closeOk

C2_CloseAlwaysExecuted == (pc \in Terminal /\ pages = 1) => calls.close = 1

\* C3: whenever the engine has been acquired it is shut down before the run
\* ends, on every exit path (success, or an exception in launch, page open,
\* navigation, capture or close).
C3_EngineReleased ==
    (pc \in Terminal /\ engine # "none") => (engine = "stopped" /\ calls.stop = 1)

\* C3 witness: a run that ended by an exception inside the scope.
C3_Witness == pc = "Failed" /\ err = "CloseError" /\ engine = "stopped"

\* C4: when the navigation fails (no server), the run fails with a
\* NavigationTimeout and a non-zero exit status, the capture is never
\* attempted and the screenshot file is neither created nor modified.
C4_NavigationFailure ==
    (calls.goto = 1 /\ ~Reachable) =>
        /\ err = "NavigationTimeout"
        /\ calls.screenshot = 0
        /\ file = fileAtStart
        /\ pc \in {"Raised", "Failed"}
        /\ pc \in Terminal => exit > 0

\* C4 witness: a run whose navigation failed has ended.
C4_Witness == pc = "Failed" /\ calls.goto = 1 /\ ~Reachable

C7_Original == pc \in Terminal => ((exit = 0) = (file = run))

\* C7 (amended): no error is caught: any failure gives a non-zero exit
\* status; exit status 0 implies the artifact was written in that run; a
\* failure of engine start, launch, page open, navigation or capture leaves
\* no artifact written in that run; only a failure of the browser close
\* gives a non-zero exit status with the artifact written.
C7_NoRecovery ==
    pc \in Terminal =>
        /\ (exit = 0) = (err = "none")
        /\ exit = 0 => file = run
        /\ (exit # 0 /\ err # "CloseError") => (file = fileAtStart /\ file # run)
        /\ err = "CloseError" => file = run

\* C7 witness: a run ended by a capture failure, with no artifact written.
C7_Witness == pc = "Failed" /\ err = "CaptureError" /\ file # run

\* C8: every run visits a prefix of the lifecycle in order, makes each call
\* at most once, and a successful run visits the whole lifecycle with
\* exactly one browser and one page.
C8_LinearLifecycle ==
    /\ \A i \in 1..Len(trace) :
          \/ i <= Len(Lifecycle) /\ trace[i] = Lifecycle[i]
          \/ trace[i] \notin LifecycleStates
               /\ \A j \in i..Len(trace) : trace[j] \notin LifecycleStates
    /\ \A c \in DOMAIN calls : calls[c] <= 1
    /\ pages <= 1
    /\ pc = "End" =>
          /\ trace = Lifecycle
          /\ \A c \in DOMAIN calls : calls[c] = 1
          /\ pages = 1

\* C8 witness: a run stopped by a failure after visiting a proper prefix.
C8_Witness == pc = "Failed" /\ err = "CaptureError" /\ Len(trace) = 7

\* C9: the page is used (navigate or capture) only while its browser is open
\* and the engine is still acquired.
C9_PageUsedWhileOpen ==
    [][(calls'.goto > calls.goto \/ calls'.screenshot > calls.screenshot)
         => (run \in browsers /\ engine = "running")]_vars

\* C9 witness: both uses of the page have happened.
C9_Witness == calls.goto = 1 /\ calls.screenshot = 1

\* C10: every run terminates: given that each call returns or raises, the
\* run reaches a terminal state.
C10_Terminates == [](pc \notin Terminal => <>(pc \in Terminal))

\* C10 witness: a run whose navigation timed out has terminated.
C10_Witness == pc = "Failed" /\ err = "NavigationTimeout" /\ exit = 1

====
